---- MODULE Spec2Model ----
(***************************************************************************)
(* A model of pycuda's memory pool bindings (src/wrapper/mempool.cpp):     *)
(* the device and host allocators, the context-dependent memory pool, the  *)
(* pooled allocation handles and the operations exposed to Python.         *)
(* Spec is the device pool (DeviceMemoryPool), HostSpec the page-locked    *)
(* host pool (PageLockedMemoryPool), QuerySpec the size-class queries.     *)
(*                                                                         *)
(* mempool.cpp is glue around pycuda::memory_pool<Allocator> and           *)
(* pycuda::pooled_allocation<Pool> (mempool.hpp), cuda::mem_alloc /        *)
(* cuda::mem_free / cuda::scoped_context_activation (cuda.hpp) and         *)
(* pycuda::run_python_gc (tools.hpp).  Those headers are modelled from     *)
(* the specification; the definitions that carry mempool.cpp's names       *)
(* (device_allocator_*, start_holding_blocks, device_pool_allocate, ...)   *)
(* are translated from mempool.cpp.                                        *)
(*                                                                         *)
(* Every C++ function is an operator from a world record w (the values of  *)
(* all variables, plus the return value and the pending exception) to the  *)
(* world after the call, so that one action is one whole call.             *)
(***************************************************************************)
EXTENDS Integers, Sequences, FiniteSets, TLC

VARIABLES
  mem,             \* backend: blocks returned by mem_alloc and not yet passed to mem_free
  ub,              \* TRUE once mem_free was called on a block that is not allocated
  bins,            \* memory_pool::m_container: bin number -> stack of cached blocks
  held_blocks,     \* memory_pool::m_held_blocks
  active_blocks,   \* memory_pool::m_active_blocks
  m_stop_holding,  \* memory_pool::m_stop_holding (pass-through mode)
  ctx_held,        \* explicit_context_dependent: the pool holds its context reference
  ctx_stack,       \* the thread's context stack, current context last
  ctx_log,         \* acquire_context / release_context calls of the last operation
  handles,         \* the pooled allocation objects (device or host) owned by Python
  trace,           \* backend and hook events of the last operation, in order
  last             \* the last operation: its name, arguments and outcome

vars == <<mem, ub, bins, held_blocks, active_blocks, m_stop_holding,
          ctx_held, ctx_stack, ctx_log, handles, trace, last>>

----------------------------------------------------------------------------
(* Bounds *)

MaxBlocks == 2
MaxHandles == 2
\* The size queries go up to the class MaxQueryBin and lie within QueryDelta
\* bytes of a class boundary (or of zero).
MaxQueryBin == 3
QueryDelta == 8

Blocks == 1..MaxBlocks
Handles == 1..MaxHandles

\* Requested sizes: two sizes of bin 0 and one of bin 1, as in the
\* specification's end-to-end example.
Sizes == {100, 200, 300}

\* Outcome of one backend allocation: 0 is out-of-memory, b > 0 the block.
Outcomes == {0} \cup Blocks

PoolCtx == "pool_context"
OtherCtx == "other_context"

----------------------------------------------------------------------------
(* Helpers *)

Min(S) == CHOOSE x \in S : \A y \in S : x <= y

Range(s) == {s[i] : i \in 1..Len(s)}

Front(s) == SubSeq(s, 1, Len(s) - 1)

Event(ev, size, blk, ctx) == [ev |-> ev, size |-> size, blk |-> blk, ctx |-> ctx]

\* A handle object: absent, or live and owning block ptr of size bytes
\* (valid), or live and released (no operation reads what a released handle
\* pointed to, so it is not kept).
NoHandle == [st |-> "none", ptr |-> 0, size |-> 0, valid |-> FALSE]

Released == [st |-> "live", ptr |-> 0, size |-> 0, valid |-> FALSE]

\* Injective sequences over S: the orders in which a collection can destroy
\* any subset of S.
RECURSIVE InjSeqs(_)
InjSeqs(S) ==
  {<<>>} \cup UNION {{<<x>> \o t : t \in InjSeqs(S \ {x})} : x \in S}

\* The world: the variables, plus the callee's return value (ret), the
\* exception in flight (exc) and whether the backend outcomes chosen for the
\* call are ones a backend can produce (feasible).
World ==
  [mem |-> mem, ub |-> ub, bins |-> bins, held_blocks |-> held_blocks,
   active_blocks |-> active_blocks, m_stop_holding |-> m_stop_holding,
   ctx_held |-> ctx_held, ctx_stack |-> ctx_stack, ctx_log |-> <<>>,
   handles |-> handles, trace |-> <<>>, ret |-> 0, exc |-> "none", feasible |-> TRUE,
   kind |-> "device", flags |-> "none", py_err |-> FALSE]

\* The same state seen by the operations of a memory_pool<host_allocator>.
HostWorld == [World EXCEPT !.kind = "host"]

----------------------------------------------------------------------------
(* Size classes (memory_pool::bin_number, memory_pool::alloc_size) *)

SmallestAlloc == 256

alloc_size(bin) == SmallestAlloc * (2 ^ bin)

RECURSIVE bin_search(_, _)
bin_search(size, bin) ==
  IF alloc_size(bin) >= size THEN bin ELSE bin_search(size, bin + 1)

bin_number(size) == bin_search(size, 0)

----------------------------------------------------------------------------
(* Backend (cuda::mem_alloc, cuda::mem_free) and context activation *)

mem_alloc(w, s, out) ==
  IF out = 0
  THEN [w EXCEPT !.exc = "out_of_memory", !.ret = 0,
                 !.trace = Append(@, Event("mem_alloc", s, 0, w.ctx_stack[Len(w.ctx_stack)]))]
  ELSE [w EXCEPT !.mem = @ \cup {out}, !.ret = out,
                 !.feasible = @ /\ out \notin w.mem,
                 !.trace = Append(@, Event("mem_alloc", s, out, w.ctx_stack[Len(w.ctx_stack)]))]

mem_free(w, p) ==
  [w EXCEPT !.mem = @ \ {p},
            !.ub = @ \/ p \notin w.mem,
            !.trace = Append(@, Event("mem_free", 0, p, w.ctx_stack[Len(w.ctx_stack)]))]

\* scoped_context_activation: the constructor makes the context current,
\* the destructor restores the previous one.
scoped_context_activation(w, ctx) == [w EXCEPT !.ctx_stack = Append(@, ctx)]

scoped_context_activation_dtor(w) == [w EXCEPT !.ctx_stack = Front(@)]

\* cuda::mem_alloc_host, cuda::mem_free_host: page-locked host memory.
mem_alloc_host(w, s, out) ==
  IF out = 0
  THEN [w EXCEPT !.exc = "out_of_memory", !.ret = 0,
                 !.trace = Append(@, Event("mem_alloc_host", s, 0, w.ctx_stack[Len(w.ctx_stack)]))]
  ELSE [w EXCEPT !.mem = @ \cup {out}, !.ret = out,
                 !.feasible = @ /\ out \notin w.mem,
                 !.trace = Append(@, Event("mem_alloc_host", s, out, w.ctx_stack[Len(w.ctx_stack)]))]

mem_free_host(w, p) ==
  [w EXCEPT !.mem = @ \ {p},
            !.ub = @ \/ p \notin w.mem,
            !.trace = Append(@, Event("mem_free_host", 0, p, w.ctx_stack[Len(w.ctx_stack)]))]

----------------------------------------------------------------------------
(* device_allocator *)

\* A device_allocator::allocate that calls the backend in whatever context
\* is current.
device_allocator_allocate_unscoped(w, s, out) == mem_alloc(w, s, out)

device_allocator_allocate(w, s, out) ==
  LET ca == scoped_context_activation(w, PoolCtx)
      r  == mem_alloc(ca, s, out)
  IN  scoped_context_activation_dtor(r)

\* A device_allocator::free that activates the context and frees nothing.
device_allocator_free_leak(w, p) ==
  scoped_context_activation_dtor(scoped_context_activation(w, PoolCtx))

device_allocator_free(w, p) ==
  LET ca == scoped_context_activation(w, PoolCtx)
      r  == mem_free(ca, p)
  IN  scoped_context_activation_dtor(r)

----------------------------------------------------------------------------
(* host_allocator *)

host_allocator_allocate(w, s, out) == mem_alloc_host(w, s, out)

host_allocator_free(w, p) == mem_free_host(w, p)

\* m_allocator->allocate, m_allocator->free of the pool's allocator type.
allocator_allocate(w, s, out) ==
  IF w.kind = "host" THEN host_allocator_allocate(w, s, out)
  ELSE device_allocator_allocate(w, s, out)

allocator_free(w, p) ==
  IF w.kind = "host" THEN host_allocator_free(w, p)
  ELSE device_allocator_free(w, p)

----------------------------------------------------------------------------
(* context_dependent_memory_pool *)

\* explicit_context_dependent: take, and give up, the reference that keeps
\* the context alive.
acquire_context(w) ==
  [w EXCEPT !.ctx_held = TRUE, !.ctx_log = Append(@, "acquire_context")]

release_context(w) ==
  [w EXCEPT !.ctx_held = FALSE, !.ctx_log = Append(@, "release_context")]

\* A start_holding_blocks that takes no reference.
start_holding_blocks_nothing(w) == w

start_holding_blocks(w) == acquire_context(w)

stop_holding_blocks(w) == release_context(w)

\* The virtual calls: memory_pool's own start_holding_blocks and
\* stop_holding_blocks do nothing, and only the context-dependent pool
\* overrides them.
virtual_start_holding_blocks(w) ==
  IF w.kind = "device" THEN start_holding_blocks(w) ELSE w

virtual_stop_holding_blocks(w) ==
  IF w.kind = "device" THEN stop_holding_blocks(w) ELSE w

----------------------------------------------------------------------------
(* memory_pool<Allocator> *)

\* The bins the requested sizes fall into.  m_container grows a bin on first
\* use; an absent bin and an empty one behave alike, so every bin is present
\* and empty from the start.
BinNumbers == {bin_number(s) : s \in Sizes}

inc_held_blocks(w) ==
  LET w1 == IF w.held_blocks = 0 THEN virtual_start_holding_blocks(w) ELSE w
  IN  [w1 EXCEPT !.held_blocks = @ + 1]

dec_held_blocks(w) ==
  LET w1 == [w EXCEPT !.held_blocks = @ - 1]
  IN  IF w1.held_blocks = 0 THEN virtual_stop_holding_blocks(w1) ELSE w1

\* memory_pool::free(p, size): a handle gives its block back.
pool_free(w, p, size) ==
  LET w1 == [w EXCEPT !.active_blocks = @ - 1]
      bin_nr == bin_number(size)
  IN  IF ~w1.m_stop_holding
      THEN [inc_held_blocks(w1) EXCEPT !.bins[bin_nr] = Append(@, p)]
      ELSE allocator_free(w1, p)

\* memory_pool::free_held(): every cached block of every bin goes back to
\* the backend.
RECURSIVE free_held(_)
free_held(w) ==
  LET nonempty == {b \in DOMAIN w.bins : Len(w.bins[b]) > 0}
  IN  IF nonempty = {} THEN w
      ELSE LET b  == Min(nonempty)
               w1 == allocator_free(w, w.bins[b][Len(w.bins[b])])
               w2 == [w1 EXCEPT !.bins[b] = Front(@)]
           IN  free_held(dec_held_blocks(w2))

stop_holding(w) == free_held([w EXCEPT !.m_stop_holding = TRUE])

----------------------------------------------------------------------------
(* pooled_allocation<Pool> *)

pooled_allocation_free(w, h) ==
  IF w.handles[h].valid
  THEN LET w1 == pool_free(w, w.handles[h].ptr, w.handles[h].size)
       IN  [w1 EXCEPT !.handles[h] = Released]
  ELSE [w EXCEPT !.exc = "invalid_handle"]

pooled_allocation_dtor(w, h) ==
  IF w.handles[h].valid THEN pooled_allocation_free(w, h) ELSE w

----------------------------------------------------------------------------
(* Ownership of the handle by Python (manage_new_object) *)

\* A return policy under which Python drops the object without deleting it.
manage_new_object_dealloc_leak(w, h) ==
  [w EXCEPT !.handles[h] = NoHandle]

\* Python deallocates the wrapper: the held C++ object is deleted.
manage_new_object_dealloc(w, h) ==
  LET w1 == pooled_allocation_dtor(w, h)
  IN  [w1 EXCEPT !.handles[h] = NoHandle]

----------------------------------------------------------------------------
(* The relief hook *)

\* pycuda::run_python_gc(): a collection deallocates the unreachable
\* handles, gc, in order.
RECURSIVE collect(_, _)
collect(w, gc) ==
  IF gc = <<>> THEN w
  ELSE collect(manage_new_object_dealloc(w, Head(gc)), Tail(gc))

run_python_gc(w, gc) ==
  LET w1 == [w EXCEPT !.trace = Append(@, Event("gc_begin", 0, 0, w.ctx_stack[Len(w.ctx_stack)]))]
      w2 == collect(w1, gc)
  IN  [w2 EXCEPT !.trace = Append(@, Event("gc_end", 0, 0, w2.ctx_stack[Len(w2.ctx_stack)]))]

\* A try_release_blocks that does not run the collector.
try_release_blocks_skip(w, gc) == w

try_release_blocks(w, gc) == run_python_gc(w, gc)

host_allocator_try_release_blocks(w, gc) == run_python_gc(w, gc)

\* m_allocator->try_release_blocks of the pool's allocator type.
allocator_try_release_blocks(w, gc) ==
  IF w.kind = "host" THEN host_allocator_try_release_blocks(w, gc)
  ELSE try_release_blocks(w, gc)

----------------------------------------------------------------------------
(* memory_pool::allocate *)

pop_block_from_bin(w, bin_nr) ==
  LET bin == w.bins[bin_nr]
      w1  == [w EXCEPT !.bins[bin_nr] = Front(@), !.ret = bin[Len(bin)]]
      w2  == dec_held_blocks(w1)
  IN  [w2 EXCEPT !.active_blocks = @ + 1]

get_from_allocator(w, alloc_sz, out) ==
  LET w1 == allocator_allocate(w, alloc_sz, out)
  IN  IF w1.exc # "none" THEN w1
      ELSE [w1 EXCEPT !.active_blocks = @ + 1]

\* out1, out2: the outcomes of the first and of the retried backend call;
\* gc: what the relief hook collects.
pool_allocate(w, size, out1, out2, gc) ==
  LET bin_nr == bin_number(size)
  IN  IF Len(w.bins[bin_nr]) > 0
      THEN pop_block_from_bin(w, bin_nr)
      ELSE LET alloc_sz == alloc_size(bin_nr)
               w1 == get_from_allocator(w, alloc_sz, out1)
           IN  IF w1.exc = "none" THEN w1
               ELSE LET w2 == free_held([w1 EXCEPT !.exc = "none"])
                        w3 == allocator_try_release_blocks(w2, gc)
                    IN  get_from_allocator(w3, alloc_sz, out2)

\* pooled_allocation's constructor: takes its block from the pool.
pooled_allocation(w, h, size, out1, out2, gc) ==
  LET w1 == pool_allocate(w, size, out1, out2, gc)
  IN  IF w1.exc # "none" THEN w1
      ELSE [w1 EXCEPT !.handles[h] =
              [st |-> "live", ptr |-> w1.ret,
               size |-> alloc_size(bin_number(size)), valid |-> TRUE]]

\* A constructor that hands the base class a size other than the requested
\* one.
pooled_device_allocation_unit(w, h, s, out1, out2, gc) ==
  pooled_allocation(w, h, 1, out1, out2, gc)

pooled_device_allocation(w, h, s, out1, out2, gc) ==
  pooled_allocation(w, h, s, out1, out2, gc)

device_pool_allocate(w, h, sz, out1, out2, gc) ==
  pooled_device_allocation(w, h, sz, out1, out2, gc)

----------------------------------------------------------------------------
(* Byte counts of host arrays *)

\* host_allocator::size_type is unsigned int.
SizeTypeBits == 32

\* npy_intp byte counts do not fit the integers of the model: they are
\* kept as four digits to the base Limb, least significant first.
Limb == 2 ^ (SizeTypeBits \div 2)

Wide(n) == <<n % Limb, n \div Limb, 0, 0>>

RECURSIVE times_digits(_, _, _)
times_digits(ds, k, carry) ==
  IF ds = <<>> THEN <<>>
  ELSE LET p == Head(ds) * k + carry
       IN  <<p % Limb>> \o times_digits(Tail(ds), k, p \div Limb)

\* n * k in npy_intp arithmetic.
times(n, k) == times_digits(n, k, 0)

\* pycuda::size_from_dims: the product of the dimensions.
RECURSIVE size_from_dims(_)
size_from_dims(dims) ==
  IF dims = <<>> THEN Wide(1)
  ELSE times(size_from_dims(Front(dims)), dims[Len(dims)])

\* The implicit conversion of an npy_intp to size_type: the low
\* SizeTypeBits bits.
to_size_type(n) == n[1] + Limb * n[2]

----------------------------------------------------------------------------
(* pooled_host_allocation and PageLockedMemoryPool.allocate *)

pooled_host_allocation(w, h, s, out1, out2, gc) ==
  pooled_allocation(w, h, s, out1, out2, gc)

\* std::auto_ptr's destructor while it still owns the handle.
auto_ptr_dtor(w, h) ==
  LET w1 == pooled_allocation_dtor(w, h)
  IN  [w1 EXCEPT !.handles[h] = NoHandle]

\* PyArray_OrderConverter: fails, with a Python error set and the order
\* left as it was, on a value that names no order.
PyArray_OrderConverter(order_py, order) ==
  IF order_py \in {"C", "F", "A"}
  THEN [ok |-> TRUE, order |-> order_py]
  ELSE [ok |-> FALSE, order |-> order]

\* A host_pool_allocate whose handle is a bare pointer, deleted on no path.
host_pool_allocate_bare(w, h, dtype_ok, elsize, dims, order_py, arr_ok, out1, out2, gc) ==
  IF ~dtype_ok THEN [w EXCEPT !.exc = "error_already_set", !.py_err = TRUE]
  ELSE LET w1 == pooled_host_allocation(
                   w, h, to_size_type(times(size_from_dims(dims), elsize)),
                   out1, out2, gc)
       IN  IF w1.exc # "none" THEN w1
           ELSE LET conv == PyArray_OrderConverter(order_py, "C")
                    w2   == [w1 EXCEPT !.py_err = ~conv.ok]
                IN  IF conv.order \notin {"F", "C"}
                    THEN [w2 EXCEPT !.handles[h] = NoHandle,
                                    !.exc = "unrecognized order specifier"]
                    ELSE IF ~arr_ok
                    THEN [w2 EXCEPT !.handles[h] = NoHandle,
                                    !.exc = "error_already_set", !.py_err = TRUE]
                    ELSE [w2 EXCEPT !.flags =
                            IF conv.order = "F" THEN "NPY_FARRAY" ELSE "NPY_CARRAY"]

\* dtype_ok: whether PyArray_DescrConverter accepts the dtype; elsize, dims:
\* the item size of the dtype and the shape; arr_ok: whether
\* PyArray_NewFromDescr returns an array.
host_pool_allocate(w, h, dtype_ok, elsize, dims, order_py, arr_ok, out1, out2, gc) ==
  IF ~dtype_ok THEN [w EXCEPT !.exc = "error_already_set", !.py_err = TRUE]
  ELSE LET w1 == pooled_host_allocation(
                   w, h, to_size_type(times(size_from_dims(dims), elsize)),
                   out1, out2, gc)
       IN  IF w1.exc # "none" THEN w1
           ELSE LET conv == PyArray_OrderConverter(order_py, "C")
                    w2   == [w1 EXCEPT !.py_err = ~conv.ok]
                IN  IF conv.order \notin {"F", "C"}
                    THEN [auto_ptr_dtor(w2, h) EXCEPT
                            !.exc = "unrecognized order specifier"]
                    ELSE IF ~arr_ok
                    THEN [auto_ptr_dtor(w2, h) EXCEPT
                            !.exc = "error_already_set", !.py_err = TRUE]
                    ELSE [w2 EXCEPT !.flags =
                            IF conv.order = "F" THEN "NPY_FARRAY" ELSE "NPY_CARRAY"]

----------------------------------------------------------------------------
(* The methods exposed to Python *)

PageLockedMemoryPool_allocate(w, h, dtype_ok, elsize, dims, order_py, arr_ok, out1, out2, gc) ==
  host_pool_allocate(w, h, dtype_ok, elsize, dims, order_py, arr_ok, out1, out2, gc)

PooledHostAllocation_free(w, h) == pooled_allocation_free(w, h)

DeviceMemoryPool_allocate(w, h, sz, out1, out2, gc) ==
  device_pool_allocate(w, h, sz, out1, out2, gc)

\* A bin_number whose argument is narrowed before the lookup.
DeviceMemoryPool_bin_number_narrow(size) == bin_number(size % (2 * SmallestAlloc))

DeviceMemoryPool_bin_number(size) == bin_number(size)

\* An alloc_size that reports one byte less than the class holds.
DeviceMemoryPool_alloc_size_below(bin) == alloc_size(bin) - 1

DeviceMemoryPool_alloc_size(bin) == alloc_size(bin)

DeviceMemoryPool_free_held(w) == free_held(w)

\* A stop_holding bound to the trim: it frees the cache and stays in normal mode.
DeviceMemoryPool_stop_holding_trim(w) == free_held(w)

DeviceMemoryPool_stop_holding(w) == stop_holding(w)

\* A free() bound to the pool's release, past the handle's own guard.
PooledDeviceAllocation_free_unguarded(w, h) ==
  pool_free(w, w.handles[h].ptr, w.handles[h].size)

PooledDeviceAllocation_free(w, h) == pooled_allocation_free(w, h)

----------------------------------------------------------------------------
(* State machine *)

Op(op, h, size, r) == [op |-> op, h |-> h, size |-> size, exc |-> r.exc]

Commit(r, l) ==
  /\ r.feasible
  /\ mem' = r.mem
  /\ ub' = r.ub
  /\ bins' = r.bins
  /\ held_blocks' = r.held_blocks
  /\ active_blocks' = r.active_blocks
  /\ m_stop_holding' = r.m_stop_holding
  /\ ctx_held' = r.ctx_held
  /\ ctx_stack' = r.ctx_stack
  /\ ctx_log' = r.ctx_log
  /\ handles' = r.handles
  /\ trace' = r.trace
  /\ last' = l

Init ==
  /\ mem = {}
  /\ ub = FALSE
  /\ bins = [b \in BinNumbers |-> <<>>]
  /\ held_blocks = 0
  /\ active_blocks = 0
  /\ m_stop_holding = FALSE
  /\ ctx_held = FALSE
  /\ ctx_stack = <<OtherCtx>>
  /\ ctx_log = <<>>
  /\ handles = [h \in Handles |-> NoHandle]
  /\ trace = <<>>
  /\ last = [op |-> "init", h |-> 0, size |-> 0, exc |-> "none"]

Live == {h \in Handles : handles[h].st = "live"}

\* pool.allocate(sz) from Python.  The new handle is the first absent object
\* (which object it is does not matter).  The outcome of the retried backend
\* call and what the hook collects are inputs only of a call that goes on
\* after its first backend call, and the outcome of the first backend call
\* only of a call that misses its bin.
Allocate ==
  \E h \in Handles, sz \in Sizes, out1 \in Outcomes :
    /\ handles[h].st = "none"
    /\ \A g \in Handles : handles[g].st = "none" => h <= g
    /\ \E r1 \in {DeviceMemoryPool_allocate(World, h, sz, out1, 0, <<>>)} :
         IF Len(r1.trace) > 1
         THEN \E out2 \in Outcomes, gc \in InjSeqs(Live) :
                \E r \in {DeviceMemoryPool_allocate(World, h, sz, out1, out2, gc)} :
                  Commit(r, Op("allocate", h, sz, r))
         ELSE /\ r1.trace = <<>> => out1 = 0
              /\ Commit(r1, Op("allocate", h, sz, r1))

\* handle.free() from Python.
Free ==
  \E h \in Live :
    \E r \in {PooledDeviceAllocation_free(World, h)} :
      Commit(r, Op("free", h, handles[h].size, r))

\* Python drops its last reference to handle h.
Destroy ==
  \E h \in Live :
    \E r \in {manage_new_object_dealloc(World, h)} :
      Commit(r, Op("destroy", h, handles[h].size, r))

FreeHeld ==
  \E r \in {DeviceMemoryPool_free_held(World)} :
    Commit(r, Op("free_held", 0, 0, r))

StopHolding ==
  \E r \in {DeviceMemoryPool_stop_holding(World)} :
    Commit(r, Op("stop_holding", 0, 0, r))

Next == Allocate \/ Free \/ Destroy \/ FreeHeld \/ StopHolding

Spec == Init /\ [][Next]_vars

----------------------------------------------------------------------------
(* The size-class queries of a pool (bin_number, alloc_size) *)

QuerySizes ==
  (0..QueryDelta) \cup
  UNION {{alloc_size(b) + d : d \in (0 - QueryDelta)..QueryDelta} : b \in 0..MaxQueryBin}

Query(op, size, bin, ret, prev_size, prev_bin) ==
  [op |-> op, h |-> 0, size |-> size, exc |-> "none", bin |-> bin, ret |-> ret,
   prev_size |-> prev_size, prev_bin |-> prev_bin]

QueryInit ==
  /\ mem = {}
  /\ ub = FALSE
  /\ bins = [b \in BinNumbers |-> <<>>]
  /\ held_blocks = 0
  /\ active_blocks = 0
  /\ m_stop_holding = FALSE
  /\ ctx_held = FALSE
  /\ ctx_stack = <<OtherCtx>>
  /\ ctx_log = <<>>
  /\ handles = [h \in Handles |-> NoHandle]
  /\ trace = <<>>
  /\ last = Query("init", 0, 0 - 1, 0, 0, 0 - 1)

\* pool.bin_number(size) from Python; the record keeps the query before it.
BinNumber ==
  \E size \in QuerySizes :
    /\ last' = Query("bin_number", size, DeviceMemoryPool_bin_number(size),
                     DeviceMemoryPool_bin_number(size),
                     IF last.op = "bin_number" THEN last.size ELSE 0,
                     IF last.op = "bin_number" THEN last.bin ELSE 0 - 1)
    /\ UNCHANGED <<mem, ub, bins, held_blocks, active_blocks, m_stop_holding,
                   ctx_held, ctx_stack, ctx_log, handles, trace>>

\* pool.alloc_size(bin) from Python, for the bin the last query returned.
AllocSize ==
  /\ last.op = "bin_number"
  /\ last' = Query("alloc_size", last.size, last.bin,
                   DeviceMemoryPool_alloc_size(last.bin), 0, 0 - 1)
  /\ UNCHANGED <<mem, ub, bins, held_blocks, active_blocks, m_stop_holding,
                 ctx_held, ctx_stack, ctx_log, handles, trace>>

QueryNext == BinNumber \/ AllocSize

QuerySpec == QueryInit /\ [][QueryNext]_vars

----------------------------------------------------------------------------
(* The page-locked host pool (PageLockedMemoryPool, PooledHostAllocation) *)

\* The arrays asked for: 25 items of 4 bytes, and 5665 x 613 x 773 items of
\* 8 bytes, whose byte count is 5 * 2^32 + 200.
SmallArray == [elsize |-> 4, dims |-> <<25>>]
HugeArray == [elsize |-> 8, dims |-> <<5665, 613, 773>>]
Requests == {SmallArray, HugeArray}

\* "A" names an order the pool does not support, "X" names no order.
Orders == {"C", "F", "A", "X"}

HostOp(op, h, size, r, order, bytes) ==
  [op |-> op, h |-> h, size |-> size, exc |-> r.exc, order |-> order,
   flags |-> r.flags, py_err |-> r.py_err, bytes |-> bytes]

HostInit ==
  /\ mem = {}
  /\ ub = FALSE
  /\ bins = [b \in BinNumbers |-> <<>>]
  /\ held_blocks = 0
  /\ active_blocks = 0
  /\ m_stop_holding = FALSE
  /\ ctx_held = FALSE
  /\ ctx_stack = <<OtherCtx>>
  /\ ctx_log = <<>>
  /\ handles = [h \in Handles |-> NoHandle]
  /\ trace = <<>>
  /\ last = [op |-> "init", h |-> 0, size |-> 0, exc |-> "none", order |-> "",
             flags |-> "none", py_err |-> FALSE, bytes |-> Wide(0)]

\* pool.allocate(shape, dtype, order) from Python.  As in Allocate, the
\* outcome of the retried backend call and what the hook collects are
\* inputs only of a call whose first backend call failed.  The huge array,
\* a bad dtype and a failing array constructor are tried in C order, the
\* last two with the small array.
HostAllocate ==
  \E h \in Handles, rq \in Requests, order_py \in Orders,
     dtype_ok \in BOOLEAN, arr_ok \in BOOLEAN, out1 \in Outcomes :
    /\ handles[h].st = "none"
    /\ \A g \in Handles : handles[g].st = "none" => h <= g
    /\ (~dtype_ok \/ ~arr_ok) => (rq = SmallArray /\ order_py = "C")
    /\ ~dtype_ok => arr_ok
    /\ rq = HugeArray => order_py = "C"
    /\ \E r1 \in {PageLockedMemoryPool_allocate(
                     HostWorld, h, dtype_ok, rq.elsize, rq.dims, order_py,
                     arr_ok, out1, 0, <<>>)} :
         LET bytes == times(size_from_dims(rq.dims), rq.elsize)
             size  == to_size_type(bytes)
         IN  IF r1.trace # <<>> /\ r1.trace[1].blk = 0
             THEN \E out2 \in Outcomes, gc \in InjSeqs(Live) :
                    \E r \in {PageLockedMemoryPool_allocate(
                                HostWorld, h, dtype_ok, rq.elsize, rq.dims,
                                order_py, arr_ok, out1, out2, gc)} :
                      Commit(r, HostOp("allocate", h, size, r, order_py, bytes))
             ELSE /\ (r1.trace = <<>> \/ r1.trace[1].ev # "mem_alloc_host") => out1 = 0
                  /\ Commit(r1, HostOp("allocate", h, size, r1, order_py, bytes))

\* handle.free() from Python, on the handle an array keeps as its base.
HostFree ==
  \E h \in Live :
    \E r \in {PooledHostAllocation_free(HostWorld, h)} :
      Commit(r, HostOp("free", h, handles[h].size, r, "", Wide(0)))

\* Python drops the array, and with it the handle.
HostDestroy ==
  \E h \in Live :
    \E r \in {manage_new_object_dealloc(HostWorld, h)} :
      Commit(r, HostOp("destroy", h, handles[h].size, r, "", Wide(0)))

HostFreeHeld ==
  \E r \in {free_held(HostWorld)} :
    Commit(r, HostOp("free_held", 0, 0, r, "", Wide(0)))

HostStopHolding ==
  \E r \in {stop_holding(HostWorld)} :
    Commit(r, HostOp("stop_holding", 0, 0, r, "", Wide(0)))

HostNext ==
  HostAllocate \/ HostFree \/ HostDestroy \/ HostFreeHeld \/ HostStopHolding

HostSpec == HostInit /\ [][HostNext]_vars

----------------------------------------------------------------------------
(* Vocabulary of the properties *)

\* The positions of the events named ev in a trace.
At(tr, ev) == {i \in 1..Len(tr) : tr[i].ev = ev}

\* The blocks an event kind was applied to, at the positions I of a trace.
BlocksAt(tr, I) == {tr[i].blk : i \in I}

\* The blocks cached in bins bs.
Cached(bs) == UNION {Range(bs[b]) : b \in DOMAIN bs}

\* The handles of hs that own a block.
Valid(hs) == {h \in Handles : hs[h].valid}

\* The handles a step deallocated.
Collected == {h \in Handles : handles[h].st = "live" /\ handles'[h].st = "none"}

\* The handles owning a block that the relief hook deallocated in a step.
Relieved == {h \in Collected : handles[h].valid}

\* A step that is an allocate call whose first backend call failed.
ReclaimStep ==
  /\ last'.op = "allocate"
  /\ trace' # <<>>
  /\ trace'[1].ev = "mem_alloc" /\ trace'[1].blk = 0

\* The state after an allocate call whose first backend call failed.
Reclaimed ==
  /\ last.op = "allocate"
  /\ trace # <<>>
  /\ trace[1].ev = "mem_alloc" /\ trace[1].blk = 0

\* The backend allocation outcomes of a trace, in order (0: out of memory).
RECURSIVE AllocOutcomes(_)
AllocOutcomes(tr) ==
  IF tr = <<>> THEN <<>>
  ELSE IF Head(tr).ev = "mem_alloc"
       THEN <<Head(tr).blk>> \o AllocOutcomes(Tail(tr))
       ELSE AllocOutcomes(Tail(tr))

----------------------------------------------------------------------------
(* C1: in every reachable state, held_blocks + active_blocks is the number  *)
(* of blocks the backend has handed out and not been given back, failed     *)
(* allocations included.                                                    *)
C1_Accounting == held_blocks + active_blocks = Cardinality(mem)

\* A failed allocate call that leaves blocks with the pool.
C1_Witness ==
  /\ last.op = "allocate" /\ last.exc = "out_of_memory"
  /\ Cardinality(mem) > 0

(* C2: no block is issued to two live handles at once: the handles that own *)
(* a block own different blocks, and no block owned by a handle is in the   *)
(* cache, from where a later allocate would issue it again.                 *)
C2_NoDoubleIssue ==
  /\ \A h1, h2 \in Valid(handles) :
       h1 # h2 => handles[h1].ptr # handles[h2].ptr
  /\ \A h \in Valid(handles) : handles[h].ptr \notin Cached(bins)

\* Two handles own blocks, the second one issued from the cache.
C2_Witness ==
  /\ Cardinality(Valid(handles)) = 2
  /\ last.op = "allocate" /\ last.exc = "none" /\ trace = <<>>

(* C3: every backend free is given a block the backend allocated and has    *)
(* not been given back (never a second free, never an unknown block), and   *)
(* never a block that a live handle owns.                                   *)
C3_FreesAreValid ==
  /\ ~ub
  /\ \A h \in Valid(handles) : handles[h].ptr \in mem
  /\ \A i \in At(trace, "mem_free") :
       \A h \in Valid(handles) :
         handles[h].ptr = trace[i].blk =>
           \E j \in At(trace, "mem_alloc") : j > i /\ trace[j].blk = trace[i].blk

\* Blocks were freed to the backend while a handle owns a block.
C3_Witness ==
  /\ At(trace, "mem_free") # {}
  /\ Valid(handles) # {}

(* C4 as claimed: when allocate misses its bin while other bins hold cached *)
(* blocks, and the backend fails once and then succeeds, the call frees     *)
(* every cached block, runs the hook once, retries and returns a valid      *)
(* handle, with held_blocks 0 and active_blocks one more than before.       *)
C4_Case ==
  /\ ReclaimStep
  /\ held_blocks > 0
  /\ Len(AllocOutcomes(trace')) >= 2
  /\ AllocOutcomes(trace')[2] # 0

C4_Common ==
  /\ Cardinality(At(trace', "gc_begin")) = 1
  /\ Len(AllocOutcomes(trace')) = 2
  /\ \A b \in Cached(bins) :
       \E i \in At(trace', "mem_free") :
         /\ trace'[i].blk = b
         /\ \A g \in At(trace', "gc_begin") : i < g
  /\ last'.exc = "none"
  /\ handles'[last'.h].valid
  /\ handles'[last'.h].ptr = AllocOutcomes(trace')[2]
  /\ handles'[last'.h].ptr \in mem'

C4_AsClaimed ==
  [][C4_Case =>
       /\ C4_Common
       /\ held_blocks' = 0
       /\ active_blocks' = active_blocks + 1]_vars

(* C4, amended: as claimed, but on return held_blocks is the number of      *)
(* block-owning handles the relief hook released during the call (0 when it *)
(* released none) and active_blocks is one more than before the call, less  *)
(* that number.                                                             *)
C4_ReclaimThenSucceed ==
  [][C4_Case =>
       /\ C4_Common
       /\ held_blocks' = Cardinality(Relieved)
       /\ active_blocks' = active_blocks + 1 - Cardinality(Relieved)]_vars

\* A call that drained the cache, whose hook released a handle, and whose
\* retry succeeded.
C4_Witness ==
  /\ Reclaimed
  /\ \E i \in At(trace, "mem_free") : \A g \in At(trace, "gc_begin") : i < g
  /\ AllocOutcomes(trace)[2] # 0
  /\ last.exc = "none"
  /\ held_blocks = 1

(* C5 as claimed: when the backend fails twice in a row during one allocate *)
(* call, the call fails with out-of-memory after exactly two backend        *)
(* attempts and one run of the hook, leaving held_blocks at 0 and           *)
(* active_blocks as before the call.                                        *)
C5_Case ==
  /\ ReclaimStep
  /\ Len(AllocOutcomes(trace')) >= 2
  /\ AllocOutcomes(trace')[2] = 0

C5_Common ==
  /\ Len(AllocOutcomes(trace')) = 2
  /\ Cardinality(At(trace', "gc_begin")) = 1
  /\ last'.exc = "out_of_memory"
  /\ handles'[last'.h] = NoHandle
  /\ Cached(bins) \cap Cached(bins') = {}

C5_AsClaimed ==
  [][C5_Case =>
       /\ C5_Common
       /\ held_blocks' = 0
       /\ active_blocks' = active_blocks]_vars

(* C5, amended: as claimed, but the call leaves active_blocks at its value  *)
(* before the call less the number of block-owning handles the relief hook  *)
(* released during the call, and held_blocks at that number (at 0 in        *)
(* pass-through mode, and when the hook released none).                     *)
C5_FailTwice ==
  [][C5_Case =>
       /\ C5_Common
       /\ held_blocks' = (IF m_stop_holding THEN 0 ELSE Cardinality(Relieved))
       /\ active_blocks' = active_blocks - Cardinality(Relieved)]_vars

\* A call that failed after two backend attempts with blocks still issued.
C5_Witness ==
  /\ Reclaimed
  /\ AllocOutcomes(trace) = <<0, 0>>
  /\ last.exc = "out_of_memory"
  /\ active_blocks > 0

(* C6: within an allocate call that enters the reclaim path, every block    *)
(* cached at the failure has been freed to the backend before the relief    *)
(* hook is invoked, and the hook has returned before the retried backend    *)
(* allocation is made.                                                      *)
C6_ReclaimOrder ==
  [][ReclaimStep =>
       /\ Cardinality(At(trace', "gc_begin")) = 1
       /\ Cardinality(At(trace', "gc_end")) = 1
       /\ \A g \in At(trace', "gc_begin"), e \in At(trace', "gc_end") :
            /\ g < e
            /\ BlocksAt(trace', {i \in At(trace', "mem_free") : i < g}) = Cached(bins)
            /\ Cardinality({i \in At(trace', "mem_free") : i < g}) = held_blocks
            /\ \A i \in 2..(g - 1) : trace'[i].ev = "mem_free"
            /\ e = Len(trace') - 1
            /\ trace'[Len(trace')].ev = "mem_alloc"]_vars

\* A reclaim path that freed a cached block, then ran the hook, which freed
\* a block itself, then retried.
C6_Witness ==
  /\ Reclaimed
  /\ \E g \in At(trace, "gc_begin"), e \in At(trace, "gc_end") :
       /\ \E i \in At(trace, "mem_free") : i < g
       /\ trace[Len(trace)].ev = "mem_alloc"
       /\ e = Len(trace) - 1

(* C7: outside pass-through mode, when a handle is released and the very    *)
(* next call is an allocate of a size in the released block's bin, that     *)
(* allocate makes no backend call, takes held_blocks down by one and        *)
(* returns a block that was cached in that bin (the one released last).     *)
C7_Case ==
  /\ last.op \in {"free", "destroy"}
  /\ last.exc = "none"
  /\ last.size > 0
  /\ ~m_stop_holding
  /\ last'.op = "allocate"
  /\ bin_number(last'.size) = bin_number(last.size)

C7_NextAllocateHits ==
  [][C7_Case =>
       /\ trace' = <<>>
       /\ mem' = mem
       /\ last'.exc = "none"
       /\ held_blocks' = held_blocks - 1
       /\ handles'[last'.h].valid
       /\ handles'[last'.h].ptr \in Range(bins[bin_number(last.size)])
       /\ handles'[last'.h].ptr =
            bins[bin_number(last.size)][Len(bins[bin_number(last.size)])]]_vars

\* An allocate served from the cache, for a size other than the one the
\* cached block was first requested with.
C7_Witness ==
  /\ last.op = "allocate" /\ last.exc = "none"
  /\ trace = <<>>
  /\ last.size = 200
  /\ Valid(handles) # {}

(* C8: the first release of a live handle takes active_blocks down by one   *)
(* and either takes held_blocks up by one (normal mode) or frees the block  *)
(* to the backend at once (pass-through mode); a second free() of the same  *)
(* handle is an error and changes neither counter and frees nothing.        *)
C8_ReleaseOnce ==
  [][last'.op = "free" =>
       IF handles[last'.h].valid
       THEN /\ last'.exc = "none"
            /\ ~handles'[last'.h].valid
            /\ active_blocks' = active_blocks - 1
            /\ IF m_stop_holding
               THEN /\ held_blocks' = held_blocks
                    /\ bins' = bins
                    /\ Len(trace') = 1
                    /\ trace'[1].ev = "mem_free"
                    /\ trace'[1].blk = handles[last'.h].ptr
                    /\ mem' = mem \ {handles[last'.h].ptr}
               ELSE /\ held_blocks' = held_blocks + 1
                    /\ handles[last'.h].ptr \in Cached(bins')
                    /\ trace' = <<>>
                    /\ mem' = mem
       ELSE /\ last'.exc = "invalid_handle"
            /\ held_blocks' = held_blocks
            /\ active_blocks' = active_blocks
            /\ bins' = bins
            /\ mem' = mem
            /\ trace' = <<>>]_vars

\* A second free() of a handle was rejected.
C8_Witness ==
  /\ last.op = "free" /\ last.exc = "invalid_handle"
  /\ held_blocks + active_blocks > 0

(* C9: a handle releases its block exactly once: one destroyed without an   *)
(* explicit free() releases it once at destruction (to the cache, or to the *)
(* backend in pass-through mode), and one destroyed after an explicit       *)
(* free() releases nothing more.                                            *)
C9_DestroyReleasesOnce ==
  [][last'.op = "destroy" =>
       /\ handles'[last'.h] = NoHandle
       /\ last'.exc = "none"
       /\ IF handles[last'.h].valid
          THEN /\ active_blocks' = active_blocks - 1
               /\ IF m_stop_holding
                  THEN /\ held_blocks' = held_blocks
                       /\ bins' = bins
                       /\ Len(trace') = 1
                       /\ trace'[1].ev = "mem_free"
                       /\ trace'[1].blk = handles[last'.h].ptr
                       /\ mem' = mem \ {handles[last'.h].ptr}
                  ELSE /\ held_blocks' = held_blocks + 1
                       /\ bins' = [bins EXCEPT ![bin_number(handles[last'.h].size)] =
                                     Append(@, handles[last'.h].ptr)]
                       /\ trace' = <<>>
                       /\ mem' = mem
          ELSE /\ active_blocks' = active_blocks
               /\ held_blocks' = held_blocks
               /\ bins' = bins
               /\ mem' = mem
               /\ trace' = <<>>]_vars

\* A handle was destroyed after its explicit free(), its block still cached.
C9_Witness ==
  /\ last.op = "destroy"
  /\ last.size = 0
  /\ held_blocks > 0

(* C10: free_held() takes held_blocks to 0, gives the backend exactly one   *)
(* free for each block that was cached, and leaves active_blocks and every  *)
(* handle as they were.                                                     *)
C10_FreeHeld ==
  [][last'.op = "free_held" =>
       /\ held_blocks' = 0
       /\ Cached(bins') = {}
       /\ \A i \in 1..Len(trace') : trace'[i].ev = "mem_free"
       /\ BlocksAt(trace', 1..Len(trace')) = Cached(bins)
       /\ Len(trace') = Cardinality(Cached(bins))
       /\ Len(trace') = held_blocks
       /\ mem' = mem \ Cached(bins)
       /\ active_blocks' = active_blocks
       /\ handles' = handles]_vars

\* free_held() freed cached blocks while a handle owns a block.
C10_Witness ==
  /\ last.op = "free_held"
  /\ Len(trace) >= 1
  /\ active_blocks >= 1

(* C11: stop_holding() frees every cached block to the backend and puts    *)
(* the pool into pass-through mode for good: from then on held_blocks is 0  *)
(* after every call, and every handle that gives up its block, whether      *)
(* issued before or after stop_holding(), has it freed to the backend in    *)
(* that call instead of cached.                                             *)
C11_StopHolding ==
  [][/\ last'.op = "stop_holding" =>
          /\ m_stop_holding'
          /\ held_blocks' = 0
          /\ Cached(bins') = {}
          /\ BlocksAt(trace', At(trace', "mem_free")) = Cached(bins)
          /\ Len(trace') = held_blocks
          /\ mem' = mem \ Cached(bins)
     /\ m_stop_holding =>
          /\ m_stop_holding'
          /\ held_blocks' = 0
          /\ Cached(bins') = {}
          /\ \A h \in Valid(handles) :
               handles'[h] # handles[h] =>
                 /\ ~handles'[h].valid
                 /\ \E i \in At(trace', "mem_free") :
                      trace'[i].blk = handles[h].ptr]_vars

\* In pass-through mode a handle was released and its block freed at once.
C11_Witness ==
  /\ m_stop_holding
  /\ last.op \in {"free", "destroy"}
  /\ last.size > 0
  /\ At(trace, "mem_free") # {}
  /\ held_blocks = 0

\* The i-th context call of a step: references are taken and given up in turn.
ContextCall(i) ==
  IF (i % 2 = 1) = ctx_held THEN "release_context" ELSE "acquire_context"

(* C12: the context-bound pool holds its keep-alive reference to the        *)
(* context exactly when held_blocks > 0: the reference is taken when the    *)
(* cache gets its first block, not again for further cached blocks or per   *)
(* allocation, and given up when the cache becomes empty (free_held,        *)
(* stop_holding, reclaim, or a cache hit on the last block).                *)
C12_ContextHeldWithCache ==
  [][/\ ctx_held = (held_blocks > 0)
     /\ ctx_held' = (held_blocks' > 0)
     \* a reference is taken only when none is held, and given up only when held
     /\ \A i \in 1..Len(ctx_log') : ctx_log'[i] = ContextCall(i)
     \* one release caches one block: a reference is taken for the first only
     /\ last'.op \in {"free", "destroy"} =>
          ctx_log' = (IF handles[last'.h].valid /\ ~m_stop_holding /\ held_blocks = 0
                      THEN <<"acquire_context">> ELSE <<>>)
     \* a cache hit gives the reference up with the last cached block
     /\ last'.op = "allocate" /\ trace' = <<>> =>
          ctx_log' = (IF held_blocks = 1 THEN <<"release_context">> ELSE <<>>)
     \* a backend allocation that succeeds at once touches no reference
     /\ last'.op = "allocate" /\ Len(trace') = 1 => ctx_log' = <<>>
     /\ last'.op \in {"free_held", "stop_holding"} =>
          ctx_log' = (IF held_blocks > 0 THEN <<"release_context">> ELSE <<>>)
     \* reclaim gives it up with the drain; the hook's releases take it again
     /\ ReclaimStep =>
          ctx_log' = (IF held_blocks > 0 THEN <<"release_context">> ELSE <<>>)
                     \o (IF held_blocks' > 0 THEN <<"acquire_context">> ELSE <<>>)]_vars

\* A second block was cached under the reference taken for the first.
C12_Witness ==
  /\ last.op \in {"free", "destroy"}
  /\ held_blocks = 2
  /\ ctx_held
  /\ ctx_log = <<>>

(* C13: every backend allocate and free of the device allocator runs with *)
(* the allocator's context current, and when it ends, normally or with      *)
(* out-of-memory, the context that was current before is current again: the *)
(* relief hook that follows a failed allocation runs in the caller's        *)
(* context, and no pool operation changes the context it was called in.     *)
C13_ContextScoped ==
  [][/\ ctx_stack' = ctx_stack
     /\ \A i \in At(trace', "mem_alloc") \cup At(trace', "mem_free") :
          trace'[i].ctx = PoolCtx
     /\ \A i \in At(trace', "gc_begin") \cup At(trace', "gc_end") :
          trace'[i].ctx = ctx_stack[Len(ctx_stack)]]_vars

\* An allocate that failed with out-of-memory after freeing cached blocks,
\* called in another context than the pool's.
C13_Witness ==
  /\ Reclaimed
  /\ last.exc = "out_of_memory"
  /\ At(trace, "mem_free") # {}
  /\ ctx_stack = <<OtherCtx>>

\* How many times block p is cached in bins bs.
Occurrences(bs, p) ==
  Cardinality({<<b, i>> \in (DOMAIN bs) \X (1..MaxBlocks) :
                 i <= Len(bs[b]) /\ bs[b][i] = p})

(* C20: when the relief hook, inside an allocate call's reclaim path,       *)
(* deallocates handles of the same pool that own a block, each release is   *)
(* applied exactly once: active_blocks goes down by one per such handle     *)
(* (and up by one if the retry succeeds), the handle's block is cached once *)
(* in the bin of its size, or freed once in pass-through mode, and when the *)
(* call returns or fails held_blocks + active_blocks is the number of       *)
(* blocks obtained from the backend and not yet freed.                      *)
C20_HookReleasesOnce ==
  [][ReclaimStep =>
       /\ active_blocks' = active_blocks - Cardinality(Relieved)
                           + (IF last'.exc = "none" THEN 1 ELSE 0)
       /\ held_blocks' + active_blocks' = Cardinality(mem')
       /\ \A h \in Relieved :
            LET p == handles[h].ptr
                frees == {i \in At(trace', "mem_free") : trace'[i].blk = p}
            IN  IF m_stop_holding
                THEN /\ Cardinality(frees) = 1
                     /\ \A i \in frees : \E j \in At(trace', "gc_begin") : j < i
                     /\ Occurrences(bins', p) = 0
                     /\ p \in mem' => handles'[last'.h].ptr = p
                ELSE /\ frees = {}
                     /\ Occurrences(bins', p) = 1
                     /\ p \in Range(bins'[bin_number(handles[h].size)])
                     /\ p \in mem'
       /\ held_blocks' = IF m_stop_holding THEN 0 ELSE Cardinality(Relieved)]_vars

\* An allocate whose retry succeeded after the hook released a handle: one
\* block cached by the hook, one block owned by the new handle.
C20_Witness ==
  /\ Reclaimed
  /\ last.exc = "none"
  /\ held_blocks = 1
  /\ active_blocks = 1
  /\ Cardinality(mem) = 2

\* The size class of a request.
Quantized(size) == alloc_size(bin_number(size))

(* C16: on a cache miss allocate(s) calls the backend with                  *)
(* alloc_size(bin_number(s)), never with s itself; the handle it returns    *)
(* reports that quantized size on the miss and on the hit path; a hit takes *)
(* its block from bin bin_number(s), and a released block is appended to    *)
(* the bin of the handle's size, which is the bin it was taken from.        *)
C16_QuantizedSizes ==
  [][/\ last'.op = "allocate" =>
          /\ \A i \in At(trace', "mem_alloc") :
               /\ trace'[i].size = Quantized(last'.size)
               /\ trace'[i].size # last'.size
          /\ last'.exc = "none" =>
               /\ handles'[last'.h].size = Quantized(last'.size)
               /\ handles'[last'.h].size >= last'.size
               /\ trace' = <<>> =>
                    LET b == bin_number(last'.size)
                    IN  /\ bins[b] # <<>>
                        /\ handles'[last'.h].ptr = bins[b][Len(bins[b])]
                        /\ bins'[b] = Front(bins[b])
     /\ \A h \in Valid(handles) :
          /\ \E b \in BinNumbers : handles[h].size = alloc_size(b)
          /\ (~handles'[h].valid /\ ~m_stop_holding) =>
               \E b \in BinNumbers :
                 /\ handles[h].size = alloc_size(b)
                 /\ bin_number(handles[h].size) = b
                 /\ handles[h].ptr \in Range(bins'[b])
                 /\ handles[h].ptr \notin Range(bins[b])]_vars

\* allocate(300) served from the cache: no backend call, a handle of 512
\* bytes.
C16_Witness ==
  /\ last.op = "allocate"
  /\ last.size = 300
  /\ last.exc = "none"
  /\ trace = <<>>
  /\ handles[last.h].size = 512

C17_OrderFailsFast ==
  (last.op = "allocate" /\ last.order \notin {"C", "F"}) =>
    /\ last.exc # "none"
    /\ last.flags = "none"

\* allocate(..., order="X") returned an array in C order, with the
\* converter's error still set.
C17_Witness ==
  /\ last.op = "allocate"
  /\ last.order = "X"
  /\ last.exc = "none"
  /\ last.flags = "NPY_CARRAY"
  /\ last.py_err
  /\ handles[last.h].valid

\* Whether size bytes are at least the byte count n.
Covers(size, n) ==
  /\ n[3] = 0 /\ n[4] = 0
  /\ n[2] < Limb \div 2
  /\ n[1] + Limb * n[2] <= size

(* C18: the block backing a host-pool allocation is at least                *)
(* elsize * product(dims) bytes: the size handed to the pool is the byte    *)
(* count itself, and the handle's block and every backend allocation made   *)
(* for it cover the byte count.                                             *)
C18_BlockCoversArray ==
  (last.op = "allocate" /\ last.exc = "none") =>
    /\ Wide(last.size) = last.bytes
    /\ Covers(handles[last.h].size, last.bytes)
    /\ \A i \in At(trace, "mem_alloc_host") :
         trace[i].blk # 0 => Covers(trace[i].size, last.bytes)

\* An array of 5 * 2^32 + 200 bytes backed by a block newly allocated with
\* 256 bytes.
C18_Witness ==
  /\ last.op = "allocate"
  /\ last.exc = "none"
  /\ last.bytes = <<200, 0, 5, 0>>
  /\ last.size = 200
  /\ handles[last.h].size = SmallestAlloc
  /\ trace = <<Event("mem_alloc_host", SmallestAlloc, handles[last.h].ptr, OtherCtx)>>

\* A step that is a host-pool allocate failing on its order specifier, which
\* happens after the handle has taken its block.
C19_Case ==
  /\ last'.op = "allocate"
  /\ last'.exc = "unrecognized order specifier"

\* The position in the trace of such a step where the backend handed out the
\* block (0: the block came from the cache).
C19_Obtained ==
  LET got == {i \in At(trace', "mem_alloc_host") : trace'[i].blk # 0}
  IN  IF got = {} THEN 0 ELSE CHOOSE i \in got : TRUE

\* The block the failing call had obtained.
C19_Block ==
  IF C19_Obtained = 0
  THEN bins[bin_number(last'.size)][Len(bins[bin_number(last'.size)])]
  ELSE trace'[C19_Obtained].blk

\* The block is released exactly once, and nothing is leaked or left to a
\* dead handle: the handle is gone, no handle owns the block, the block is
\* cached once (freed once in pass-through mode), and the counters account
\* for every backend block.
C19_ReleasedOnce ==
  LET p     == C19_Block
      frees == {i \in At(trace', "mem_free_host") :
                  trace'[i].blk = p /\ i > C19_Obtained}
  IN  /\ handles'[last'.h] = NoHandle
      /\ \A h \in Valid(handles') : handles'[h].ptr # p
      /\ held_blocks' + active_blocks' = Cardinality(mem')
      /\ Cardinality({i \in At(trace', "mem_alloc_host") : trace'[i].blk # 0}) <= 1
      /\ IF m_stop_holding
         THEN Cardinality(frees) = 1 /\ Occurrences(bins', p) = 0 /\ p \notin mem'
         ELSE frees = {} /\ Occurrences(bins', p) = 1 /\ p \in mem'

(* C19 as claimed: when host-pool allocate fails on an unrecognized order   *)
(* specifier, after its block has been obtained, the block is released to   *)
(* the pool exactly once before the error reaches the caller, active_blocks *)
(* is back to its value before the call and no block is leaked or left      *)
(* owned by a dead handle.                                                  *)
C19_AsClaimed ==
  [][C19_Case => (C19_ReleasedOnce /\ active_blocks' = active_blocks)]_vars

(* C19: when host-pool allocate fails on an unrecognized order specifier,   *)
(* after its block has been obtained, the block is released to the pool     *)
(* exactly once before the error reaches the caller and no block is leaked  *)
(* or left owned by a dead handle; active_blocks is its value before the    *)
(* call less the number of block-owning handles the relief hook released    *)
(* during the call.                                                         *)
C19_FailureReleasesOnce ==
  [][C19_Case =>
       /\ C19_ReleasedOnce
       /\ active_blocks' = active_blocks - Cardinality(Relieved)]_vars

\* allocate(..., order="A") failed after its first backend call ran out of
\* memory, the hook released a handle and the retry succeeded: both blocks
\* are cached and no handle is left.
C19_Witness ==
  /\ last.op = "allocate"
  /\ last.exc = "unrecognized order specifier"
  /\ last.order = "A"
  /\ trace # <<>> /\ trace[1].blk = 0
  /\ held_blocks = 2
  /\ active_blocks = 0
  /\ Valid(handles) = {}

====
